---- MODULE Spec2Model ----
(***************************************************************************)
(* Model of the gift-card format engine of src/main.py: the schema table   *)
(* GIFTCARDS, luhn_checksum / apply_luhn, validate_format, generate_one    *)
(* and the two POST handlers generate_cards and validate_card.             *)
(*                                                                         *)
(* Strings are sequences of characters; a character is a one-element TLA+  *)
(* string ("0".."9", "a", "\n") or the token "U+0663" standing for the     *)
(* single code point ARABIC-INDIC DIGIT THREE, which Python's \d and int() *)
(* both accept.  The right single quotation mark of three product names is *)
(* written as an ASCII apostrophe.                                         *)
(***************************************************************************)
EXTENDS Integers, Sequences, FiniteSets, TLC

VARIABLES op, card_name, count, voucher, pin, status, cards, result, locals, built

vars == <<op, card_name, count, voucher, pin, status, cards, result, locals, built>>

-----------------------------------------------------------------------------
(* Bounds of the model *)

\* strides b of the digit streams (a + b*i) mod 10 the random source may produce
MaxStride == 9
\* longest digit run offered to /validate as a voucher
MaxVoucherLen == 20
\* longest digit run offered to /validate as a pin
MaxPinLen == 5
\* number of digit streams offered to /validate
MaxInputSeed == 1

-----------------------------------------------------------------------------
(* Characters and strings *)

DigitChars == <<"0", "1", "2", "3", "4", "5", "6", "7", "8", "9">>

AsciiDigits == {DigitChars[i] : i \in 1..10}

\* characters of category Nd: what \d matches and int() parses
DecimalChars == AsciiDigits \cup {"U+0663"}

\* int(d) for a single character d; defined only on DecimalChars
int(d) == IF d = "U+0663" THEN 3 ELSE CHOOSE n \in 0..9 : DigitChars[n + 1] = d

\* str(n) for a single digit n
str(n) == <<DigitChars[n + 1]>>

\* s[:-1]
DropLast(s) == IF Len(s) = 0 THEN <<>> ELSE SubSeq(s, 1, Len(s) - 1)

\* s[:n] for n >= 0
Take(s, n) == IF Len(s) <= n THEN s ELSE SubSeq(s, 1, n)

Max(a, b) == IF a >= b THEN a ELSE b

RECURSIVE SumSeq(_)
SumSeq(s) == IF s = <<>> THEN 0 ELSE s[1] + SumSeq(Tail(s))

-----------------------------------------------------------------------------
(* Schema catalog *)

\* a length field is an int or a tuple of ints
Fixed(n) == [tuple |-> FALSE, n |-> n, t |-> <<n>>]
OneOf(t) == [tuple |-> TRUE, n |-> 0, t |-> t]

\* the regex ^\d{lo,hi}$
Rx(lo, hi) == [lo |-> lo, hi |-> hi]

Cfg(vl, pl, prefix, luhn, vrx, prx) ==
    [voucher_len |-> vl, pin_len |-> pl, prefix |-> prefix, luhn |-> luhn,
     voucher_regex |-> vrx, pin_regex |-> prx]

GIFTCARDS ==
    [n \in {"Costco Shop Card", "The Home Depot eGift Card", "Lowe's eGift Card",
            "Vanilla Visa Gift Card", "Visa Prepaid Gift Card",
            "Mastercard Prepaid Gift Card", "OneVanilla Prepaid",
            "Sam's Club eGift Card", "Walmart eGift Card", "Target eGift Card",
            "Best Buy eGift Card", "Macy's eGift Card"} |->
     CASE n = "Costco Shop Card" ->
            Cfg(Fixed(19), Fixed(4), <<"6", "0">>, FALSE, Rx(19, 19), Rx(4, 4))
       [] n = "The Home Depot eGift Card" ->
            Cfg(Fixed(19), Fixed(4), <<"6", "0", "4">>, FALSE, Rx(19, 19), Rx(4, 4))
       [] n = "Lowe's eGift Card" ->
            Cfg(Fixed(19), Fixed(4), <<"6", "0", "3">>, FALSE, Rx(19, 19), Rx(4, 4))
       [] n = "Vanilla Visa Gift Card" ->
            Cfg(Fixed(16), OneOf(<<3, 4>>), <<"4">>, TRUE, Rx(16, 16), Rx(3, 4))
       [] n = "Visa Prepaid Gift Card" ->
            Cfg(Fixed(16), OneOf(<<3, 4>>), <<"4">>, TRUE, Rx(16, 16), Rx(3, 4))
       [] n = "Mastercard Prepaid Gift Card" ->
            Cfg(Fixed(16), OneOf(<<3, 4>>), <<"5">>, TRUE, Rx(16, 16), Rx(3, 4))
       [] n = "OneVanilla Prepaid" ->
            Cfg(Fixed(16), Fixed(3), <<"4">>, TRUE, Rx(16, 16), Rx(3, 3))
       [] n = "Sam's Club eGift Card" ->
            Cfg(Fixed(16), Fixed(4), <<"6", "0", "1", "4">>, FALSE, Rx(16, 16), Rx(4, 4))
       [] n = "Walmart eGift Card" ->
            Cfg(Fixed(16), Fixed(4), <<"6", "0", "1", "4">>, FALSE, Rx(16, 16), Rx(4, 4))
       [] n = "Target eGift Card" ->
            Cfg(OneOf(<<15, 16>>), Fixed(4), <<"0", "4">>, FALSE, Rx(15, 16), Rx(4, 4))
       [] n = "Best Buy eGift Card" ->
            Cfg(Fixed(16), Fixed(4), <<"6", "0">>, FALSE, Rx(16, 16), Rx(4, 4))
       [] n = "Macy's eGift Card" ->
            Cfg(Fixed(16), Fixed(4), <<"6", "0">>, FALSE, Rx(16, 16), Rx(4, 4))]

\* card_name in GIFTCARDS
Known(name) == name \in DOMAIN GIFTCARDS

-----------------------------------------------------------------------------
(* Luhn check *)

\* doubling without the reduction by 9
LuhnDigit_unreduced(number, i) ==
    LET d == int(number[i]) IN
    IF (Len(number) - i) % 2 = 1 THEN 2 * d ELSE d

\* the value of digits[i] after the loop of luhn_checksum: positions
\* len-2, len-4, ... (0-based) are doubled and reduced by 9 above 9
LuhnDigit(number, i) ==
    LET d == int(number[i]) IN
    IF (Len(number) - i) % 2 = 1
    THEN IF 2 * d > 9 THEN 2 * d - 9 ELSE 2 * d
    ELSE d

\* int(d) succeeds for every character of s
Parses(s) == \A i \in 1..Len(s) : s[i] \in DecimalChars

luhn_checksum(number) ==
    LET digits == [i \in 1..Len(number) |-> LuhnDigit(number, i)] IN
    (10 - (SumSeq(digits) % 10)) % 10

\* the check digit computed without the placeholder digit
apply_luhn_unpadded(base) == base \o str(luhn_checksum(base))

apply_luhn(base) == base \o str(luhn_checksum(base \o <<"0">>))

-----------------------------------------------------------------------------
(* validate_format *)

\* the quantifier bounds off by one
re_match_longer(rx, s) ==
    \E n \in (rx.lo + 1)..(rx.hi + 1) :
        /\ Len(s) = n \/ (Len(s) = n + 1 /\ s[n + 1] = "\n")
        /\ \A i \in 1..n : s[i] \in DecimalChars

\* bool(re.match(r"^\d{lo,hi}$", s)): $ also matches before a final newline
re_match(rx, s) ==
    \E n \in rx.lo..rx.hi :
        /\ Len(s) = n \/ (Len(s) = n + 1 /\ s[n + 1] = "\n")
        /\ \A i \in 1..n : s[i] \in DecimalChars

\* the check applied from 15 characters on
luhn_checked_from15(cfg, v) == cfg.luhn /\ Len(v) >= 15

\* the condition of line 144
luhn_checked(cfg, v) == cfg.luhn /\ Len(v) = 16

\* the two pattern penalties exchanged
accuracy_of_swapped(cfg, v_match, p_match, luhn_ok) ==
    LET a1 == IF ~v_match THEN 100 - 40 ELSE 100
        a2 == IF ~p_match THEN a1 - 50 ELSE a1
        a3 == IF cfg.luhn /\ ~luhn_ok THEN a2 - 10 ELSE a2
    IN  Max(0, a3)

\* lines 148-151 and the max of line 155
accuracy_of(cfg, v_match, p_match, luhn_ok) ==
    LET a1 == IF ~v_match THEN 100 - 50 ELSE 100
        a2 == IF ~p_match THEN a1 - 40 ELSE a1
        a3 == IF cfg.luhn /\ ~luhn_ok THEN a2 - 10 ELSE a2
    IN  Max(0, a3)

\* the checksum term left out
valid_of_patterns(cfg, v_match, p_match, luhn_ok) == v_match /\ p_match

\* line 154
valid_of(cfg, v_match, p_match, luhn_ok) ==
    v_match /\ p_match /\ (~cfg.luhn \/ luhn_ok)

NoLocals == [v_match |-> FALSE, p_match |-> FALSE, luhn_ok |-> FALSE, checked |-> FALSE]
NoResult == [valid |-> FALSE, accuracy |-> 0]

\* outcome of validate_format: how it ends (a return, HTTPException 404 or an
\* uncaught ValueError of int()), the returned dict and the locals it held
validate_format(name, v, p) ==
    IF ~Known(name)
    THEN [status |-> "NotFound", result |-> NoResult, locals |-> NoLocals]
    ELSE
      LET cfg     == GIFTCARDS[name]
          v_match == re_match(cfg.voucher_regex, v)
          p_match == re_match(cfg.pin_regex, p)
          checked == luhn_checked(cfg, v)
      IN
      IF checked /\ ~(Parses(DropLast(v) \o <<"0">>) /\ v[Len(v)] \in DecimalChars)
      THEN [status |-> "ValueError", result |-> NoResult,
            locals |-> [v_match |-> v_match, p_match |-> p_match,
                        luhn_ok |-> TRUE, checked |-> TRUE]]
      ELSE
        LET luhn_ok == IF checked
                       THEN int(v[Len(v)]) = luhn_checksum(DropLast(v) \o <<"0">>)
                       ELSE TRUE
        IN [status |-> "OK",
            result |-> [valid |-> valid_of(cfg, v_match, p_match, luhn_ok),
                        accuracy |-> accuracy_of(cfg, v_match, p_match, luhn_ok)],
            locals |-> [v_match |-> v_match, p_match |-> p_match,
                        luhn_ok |-> luhn_ok, checked |-> checked]]

-----------------------------------------------------------------------------
(* The random source *)

\* random.seed() reseeds from system entropy on every call of generate_one;
\* the entropy of one call is a digit stream (a + b*i) mod 10 and the two raw
\* draws rv, rp that random.choice turns into an index
Entropy == [a : 0..9, b : 0..MaxStride, rv : 0..1, rp : 0..1]

\* a batch of more than two cards starts from one of these; CallEntropy
\* runs through the other values of a, rv and rp inside the batch
BatchEntropy == {e \in Entropy : e.a = 0 /\ e.rv = 0 /\ e.rp = 0}

\* the i-th digit (i >= 0) drawn from "0123456789"
RandDigit(rnd, i) == DigitChars[((rnd.a + rnd.b * i) % 10) + 1]

\* random.choices("0123456789", k=k), the stream being at position from
random_choices(rnd, from, k) == [i \in 1..k |-> RandDigit(rnd, from + i - 1)]

\* random.choice(t) for a tuple t and the raw draw r
random_choice(t, r) == t[(r % Len(t)) + 1]

\* the entropy the i-th call of a batch receives, for the batch's entropy e
CallEntropy(e, i) ==
    [a |-> (e.a + i - 1) % 10, b |-> e.b,
     rv |-> (e.rv + i - 1) % 2, rp |-> (e.rp + (i - 1) \div 2) % 2]

-----------------------------------------------------------------------------
(* generate_one *)

\* lines 163-165 and 175-177: resolve a length field
pick_len(field, r) == IF field.tuple THEN random_choice(field.t, r) ELSE field.n

\* lines 166-169
base_of(cfg, v_len, rnd) ==
    LET base_len == v_len - Len(cfg.prefix)
        base     == cfg.prefix \o random_choices(rnd, 0, Max(0, base_len))
    IN  IF Len(base) > v_len THEN Take(base, v_len) ELSE base

\* the check digit appended to the whole base
voucher_of_whole(cfg, base) ==
    IF cfg.luhn /\ Len(base) >= 15 THEN apply_luhn(base) ELSE base

\* line 171
voucher_of(cfg, base) ==
    IF cfg.luhn /\ Len(base) >= 15 THEN apply_luhn(DropLast(base)) ELSE base

\* the returned card, with the two lengths the call chose (its locals v_len, p_len)
generate_one(name, rnd) ==
    LET cfg     == GIFTCARDS[name]
        v_len   == pick_len(cfg.voucher_len, rnd.rv)
        drawn   == Max(0, v_len - Len(cfg.prefix))
        base    == base_of(cfg, v_len, rnd)
        v0      == voucher_of(cfg, base)
        short   == Len(v0) < v_len
        v       == IF short THEN v0 \o <<RandDigit(rnd, drawn)>> ELSE v0
        p_len   == pick_len(cfg.pin_len, rnd.rp)
        p       == random_choices(rnd, IF short THEN drawn + 1 ELSE drawn, p_len)
    IN  [card_name |-> name, voucher |-> v, pin |-> p, accuracy |-> 100, valid |-> TRUE,
         v_len |-> v_len, p_len |-> p_len]

-----------------------------------------------------------------------------
(* Requests *)

\* Field(1, ge=1, le=1000)
MinCount == 1
MaxCount == 1000

\* a lower bound of zero
GenerateRequest_ge0(cnt) == cnt >= 0 /\ cnt <= MaxCount

\* pydantic's check of GenerateRequest.count
GenerateRequest(cnt) == cnt >= MinCount /\ cnt <= MaxCount

UnknownName == "Amazon Gift Card"

NameInputs == DOMAIN GIFTCARDS \cup {UnknownName}

CountInputs == {MinCount - 2, MinCount - 1, MinCount, MinCount + 1, MaxCount, MaxCount + 1}

\* the example values of ValidateRequest
ExampleVoucher ==
    <<"6", "0", "4", "1", "2", "3", "4", "5", "6", "7", "8", "9", "0", "1", "2", "3", "4", "5", "6">>
ExamplePin == <<"9", "8", "7", "6">>

OtherChars == {"a", "\n", "U+0663"}

\* a run of n digits
Stream(s, n) == [i \in 1..n |-> DigitChars[((s + (2 * s + 1) * (i - 1)) % 10) + 1]]

\* s, s with its first or last character replaced, s with a character appended
Edits(s, chars) ==
    {s} \cup {s \o <<c>> : c \in chars}
        \cup (IF s = <<>> THEN {}
              ELSE {DropLast(s) \o <<c>> : c \in chars} \cup {<<c>> \o Tail(s) : c \in chars})

VoucherInputs ==
    UNION {Edits(b, OtherChars) :
           b \in {Stream(s, n) : s \in 0..MaxInputSeed, n \in 0..MaxVoucherLen}
                 \cup {apply_luhn(Stream(s, 15)) : s \in 0..MaxInputSeed}
                 \cup {ExampleVoucher}}

PinInputs ==
    UNION {Edits(b, {"a", "\n"}) : b \in {Stream(0, n) : n \in 0..MaxPinLen} \cup {ExamplePin}}

-----------------------------------------------------------------------------
(* Handlers *)

\* POST /generate: the request model is checked before the handler runs
generate_cards(name, cnt, e) ==
    IF ~GenerateRequest(cnt)
    THEN [status |-> "InvalidArgument", cards |-> <<>>, built |-> 0]
    ELSE IF ~Known(name)
    THEN [status |-> "NotFound", cards |-> <<>>, built |-> 0]
    ELSE [status |-> "OK",
          cards  |-> [i \in 1..cnt |-> generate_one(name, CallEntropy(e, i))],
          built  |-> cnt]

Init ==
    /\ op = "idle"
    /\ card_name = ""
    /\ count = 0
    /\ voucher = <<>>
    /\ pin = <<>>
    /\ status = ""
    /\ cards = <<>>
    /\ result = NoResult
    /\ locals = NoLocals
    /\ built = 0

\* POST /generate
Generate ==
    /\ op = "idle"
    /\ \E name \in NameInputs, cnt \in CountInputs :
      \E e \in IF cnt > MinCount + 1 THEN BatchEntropy ELSE Entropy :
        LET r == generate_cards(name, cnt, e) IN
        /\ op' = "generate"
        /\ card_name' = name
        /\ count' = cnt
        /\ voucher' = <<>>
        /\ pin' = <<>>
        /\ status' = r.status
        /\ cards' = r.cards
        /\ built' = r.built
        /\ result' = NoResult
        /\ locals' = NoLocals

\* POST /validate
Validate ==
    /\ op = "idle"
    /\ \E name \in NameInputs, v \in VoucherInputs, p \in PinInputs :
        LET r == validate_format(name, v, p) IN
        /\ op' = "validate"
        /\ card_name' = name
        /\ count' = 0
        /\ voucher' = v
        /\ pin' = p
        /\ status' = r.status
        /\ result' = r.result
        /\ locals' = r.locals
        /\ cards' = <<>>
        /\ built' = 0

\* the response is sent; nothing of the call is kept
Respond ==
    /\ op # "idle"
    /\ op' = "idle"
    /\ card_name' = ""
    /\ count' = 0
    /\ voucher' = <<>>
    /\ pin' = <<>>
    /\ status' = ""
    /\ cards' = <<>>
    /\ result' = NoResult
    /\ locals' = NoLocals
    /\ built' = 0

Next == Generate \/ Validate \/ Respond

Spec == Init /\ [][Next]_vars

-----------------------------------------------------------------------------
(* Properties *)

Digits(s) == \A i \in 1..Len(s) : s[i] \in AsciiDigits

Lengths(field) == IF field.tuple THEN {field.t[i] : i \in 1..Len(field.t)} ELSE {field.n}

IsPrefix(pre, s) == Len(pre) <= Len(s) /\ SubSeq(s, 1, Len(pre)) = pre

Generated == op = "generate" /\ status = "OK"

Validated == op = "validate" /\ status = "OK"

\* C1: every card a successful generate returns validates against its own
\* product with valid = true and accuracy = 100
C1_SelfConsistency ==
    Generated =>
        \A i \in 1..Len(cards) :
            LET r == validate_format(card_name, cards[i].voucher, cards[i].pin) IN
            r.status = "OK" /\ r.result.valid /\ r.result.accuracy = 100

C1_Witness ==
    /\ Generated
    /\ card_name = "Vanilla Visa Gift Card"
    /\ Len(cards) = 1
    /\ Len(cards[1].voucher) = 16

\* C2: a generated voucher is all digits, begins with the product's prefix and
\* has exactly the chosen length, which is a declared voucher length; the pin
\* is all digits and its length is a declared pin length
C2_GenerationPostCondition ==
    Generated =>
        \A i \in 1..Len(cards) :
            LET cfg == GIFTCARDS[card_name]
                c   == cards[i]
            IN  /\ Digits(c.voucher)
                /\ IsPrefix(cfg.prefix, c.voucher)
                /\ Len(c.voucher) = c.v_len
                /\ c.v_len \in Lengths(cfg.voucher_len)
                /\ Digits(c.pin)
                /\ Len(c.pin) \in Lengths(cfg.pin_len)

C2_Witness ==
    /\ Generated
    /\ card_name = "Mastercard Prepaid Gift Card"
    /\ \E i \in 1..Len(cards) : cards[i].v_len = 16 /\ Len(cards[i].pin) = 3

\* the mod-10 sum of a full number: counted from the right, every second digit
\* is replaced by the digit sum of its double
Mod10Sum(v) ==
    SumSeq([i \in 1..Len(v) |->
              LET d == int(v[i]) IN
              IF (Len(v) - i) % 2 = 1 THEN ((2 * d) \div 10) + ((2 * d) % 10) ELSE d])

\* C3: for a checksum-requiring product every generated 16-digit voucher ends
\* in luhn_checksum(first 15 digits + "0"), and its mod-10 sum is divisible by 10
C3_ChecksumRoundTrip ==
    (Generated /\ GIFTCARDS[card_name].luhn) =>
        \A i \in 1..Len(cards) :
            LET v == cards[i].voucher IN
            Len(v) = 16 =>
                /\ int(v[16]) = luhn_checksum(DropLast(v) \o <<"0">>)
                /\ Mod10Sum(v) % 10 = 0

C3_Witness ==
    /\ Generated
    /\ card_name = "Visa Prepaid Gift Card"
    /\ Len(cards) = 2
    /\ Len(cards[2].voucher) = 16
    /\ cards[2].voucher[16] # "0"

\* C4: the accuracy validate_format returns is 100, less 50 for a voucher
\* mismatch, less 40 for a pin mismatch, less 10 for a failed required
\* checksum, floored at 0; it is one of 100, 90, 60, 50, 10, 0
C4_AccuracyScoring ==
    Validated =>
        LET cfg == GIFTCARDS[card_name]
            raw == 100 - (IF locals.v_match THEN 0 ELSE 50)
                       - (IF locals.p_match THEN 0 ELSE 40)
                       - (IF cfg.luhn /\ ~locals.luhn_ok THEN 10 ELSE 0)
        IN  /\ result.accuracy = (IF raw < 0 THEN 0 ELSE raw)
            /\ result.accuracy \in {100, 90, 60, 50, 10, 0}

C4_Witness ==
    /\ Validated
    /\ GIFTCARDS[card_name].luhn
    /\ locals.v_match /\ ~locals.p_match /\ ~locals.luhn_ok
    /\ result.accuracy = 50

CostcoExample ==
    /\ op = "validate"
    /\ card_name = "Costco Shop Card"
    /\ voucher = ExampleVoucher
    /\ pin = ExamplePin

\* C5 as stated: the Costco example yields voucherMatches = false,
\* pinMatches = true, valid = false and accuracy = 50
C5_CostcoScenario_Original ==
    CostcoExample =>
        /\ status = "OK"
        /\ ~locals.v_match /\ locals.p_match
        /\ ~result.valid /\ result.accuracy = 50

\* C5 amended: the example voucher has 19 digits, so the Costco example yields
\* voucherMatches = true, pinMatches = true, valid = true and accuracy = 100
C5_CostcoScenario ==
    CostcoExample =>
        /\ status = "OK"
        /\ locals.v_match /\ locals.p_match
        /\ result.valid /\ result.accuracy = 100

C5_Witness == CostcoExample /\ Len(voucher) = 19 /\ status = "OK"

\* C6: for a checksum-requiring product and a voucher whose length is not 16
\* the checksum is not evaluated: checksumOk stays true, no 10-point penalty
\* is applied and valid depends on the two patterns only; the checksum is
\* evaluated only at length 16
C6_ChecksumAsymmetry ==
    (op = "validate" /\ Known(card_name) /\ GIFTCARDS[card_name].luhn) =>
        /\ Len(voucher) # 16 =>
              /\ status = "OK"
              /\ ~locals.checked /\ locals.luhn_ok
              /\ result.accuracy = 100 - (IF locals.v_match THEN 0 ELSE 50)
                                       - (IF locals.p_match THEN 0 ELSE 40)
              /\ result.valid <=> (locals.v_match /\ locals.p_match)
        /\ locals.checked => Len(voucher) = 16

C6_Witness ==
    /\ Validated
    /\ GIFTCARDS[card_name].luhn
    /\ Len(voucher) = 15 /\ Digits(voucher)
    /\ int(voucher[15]) # luhn_checksum(DropLast(voucher) \o <<"0">>)
    /\ locals.p_match

\* C7: generate returns exactly count cards of the requested product, each
\* with accuracy 100 and valid true, for a known product and 1 <= count <= 1000;
\* it fails with InvalidArgument for a count outside that range and with
\* NotFound for an unknown product, and then no card is built or returned
C7_GenerateAllOrNothing ==
    op = "generate" =>
        /\ (Known(card_name) /\ count >= 1 /\ count <= 1000) =>
              /\ status = "OK"
              /\ Len(cards) = count /\ built = count
              /\ \A i \in 1..Len(cards) :
                    /\ cards[i].card_name = card_name
                    /\ cards[i].accuracy = 100
                    /\ cards[i].valid
        /\ (count < 1 \/ count > 1000) => status = "InvalidArgument"
        /\ (~Known(card_name) /\ count >= 1 /\ count <= 1000) => status = "NotFound"
        /\ status # "OK" => (status \in {"InvalidArgument", "NotFound"} /\ cards = <<>> /\ built = 0)

C7_Witness == Generated /\ count = 1000 /\ Len(cards) = 1000 /\ built = 1000

\* C8: validate fails with NotFound exactly for an unknown product and
\* returns a result for every voucher and pin of a known product
C8_ValidateOnlyNotFound ==
    op = "validate" =>
        /\ status = "NotFound" <=> ~Known(card_name)
        /\ Known(card_name) =>
              (status = "OK" /\ result.valid \in BOOLEAN /\ result.accuracy \in 0..100)

\* C9: a voucher or pin counts as matching only if the whole string is
\* decimal digits of a declared length, and no other input is valid
C9_FullMatch ==
    Validated =>
        LET cfg    == GIFTCARDS[card_name]
            v_full == Parses(voucher) /\ Len(voucher) \in Lengths(cfg.voucher_len)
            p_full == Parses(pin) /\ Len(pin) \in Lengths(cfg.pin_len)
        IN  /\ locals.v_match => v_full
            /\ locals.p_match => p_full
            /\ result.valid => (v_full /\ p_full)

\* C10: valid is true exactly when accuracy is 100
C10_ValidIffFullScore ==
    Validated => (result.valid <=> result.accuracy = 100)

C10_Witness ==
    /\ Validated
    /\ locals.v_match /\ locals.p_match /\ ~locals.luhn_ok
    /\ ~result.valid /\ result.accuracy = 90

====
